---- MODULE Spec2Model ----
(***************************************************************************)
(* Models of units of the design-pattern catalogue, each with its own      *)
(* state variables and its own specifications; a specification of one unit *)
(* leaves the other units as they are constructed.                         *)
(*                                                                         *)
(* Command / undo-redo (src/Behavioral/command.py): the TextEditor         *)
(* receiver, the InsertTextCommand and DeleteTextCommand objects, the      *)
(* CommandInvoker with its two stacks, and the client script of the        *)
(* __main__ block.                                                         *)
(* State (src/Behavoral/state.py): the MediaPlayers context and its three  *)
(* PlayerState classes.                                                    *)
(* Singleton (src/Creationals/singleton.py): the Logger class, its         *)
(* getInstance() with double-checked locking, run by several threads.      *)
(* Memento (src/Behavioral/memento.py): the FormEditor originator, its     *)
(* FormState mementos and the HistoryManager caretaker.  Dictionaries are  *)
(* objects of a heap, so that a copy and a shared reference differ.        *)
(* Observer (src/Behavioral/observer.py): the Stock subject, its list of   *)
(* observers and the three observers of the __main__ block.                *)
(* Adapter (src/Structural/adapter.py): the PaymentAdapter, the auth code  *)
(* it keeps between calls and the calls it makes on the LegacyGateway.     *)
(* Proxy (src/Structural/proxy.py): ProxyDocument objects, the            *)
(* RealDocument objects they create and the renderings made through them.  *)
(* Mediator (src/Behavoral/mediator.py): the ConcreteChatMediator, its     *)
(* routing map, the participants created and the messages they received.   *)
(*                                                                         *)
(* Text is a sequence of one-character strings.  Command objects have an   *)
(* identity: the stacks hold references (ids), and the only mutable field  *)
(* of a command, DeleteTextCommand._deleted_text, is the state variable    *)
(* deleted_text.                                                           *)
(***************************************************************************)
EXTENDS Integers, Sequences, FiniteSets, TLC

VARIABLES
    content,        \* TextEditor.content
    content0,       \* the content the TextEditor was constructed with
    deleted_text,   \* DeleteTextCommand._deleted_text, per Delete object
    history,        \* CommandInvoker._history (ids, oldest first)
    redo_stack,     \* CommandInvoker._redo_stack (ids, oldest first)
    last,           \* the last call made: its name, argument, the state it
                    \* found, what it raised and what the invoker reported
    pc,             \* position of the __main__ script
    main_ins,       \* the script's insert command object
    main_del,       \* the script's delete command object
    calls,          \* how many calls the client has made
    \* State (src/Behavoral/state.py)
    player_state,   \* type(MediaPlayers._state).__name__
    presses,        \* the press_* calls made so far, oldest first
    visited,        \* the player's state after each of them
    set_states,     \* the number of set_state calls each of them made
    \* Singleton (src/Creationals/singleton.py)
    instance,       \* Logger._instance: 0 for None, else the Logger object
    lock,           \* _singleton_lock: 0 when free, else the thread holding it
    tpc,            \* where each thread is in its call
    tobj,           \* the Logger object each thread has constructed (0: none)
    tret,           \* what each thread's call returned (0: nothing yet,
                    \* -1: it raised, else the Logger object)
    nobjects,       \* how many Logger objects have been constructed
    nassign,        \* how many times Logger._instance has been assigned
    \* Memento (src/Behavioral/memento.py)
    dicts,          \* the dict objects created so far; a dict's identity is
                    \* its index
    editor_dict,    \* FormEditor._field_values (a dict object)
    last_change,    \* FormEditor._last_change
    mementos,       \* FormState._state of every FormState object created
                    \* (a dict object); a FormState's identity is its index
    mhistory,       \* HistoryManager._history (FormState objects)
    undo_result,    \* what the last HistoryManager.undo() returned (0: None)
    mlast,          \* the last call made on the unit and the state it found
    timeline,       \* the editor's states after construction and after each
                    \* change that has not been undone, oldest first
    snap_at,        \* for every FormState object saved by the
                    \* snapshot-before-change protocol, the length of the
                    \* timeline when it was created
    saved_len,      \* the length of the history after the last save_state
    undos_ok,       \* the undo() calls since then that returned a memento
    mcalls,         \* how many calls the client has made
    \* Observer (src/Behavioral/observer.py)
    stock_price,    \* Stock._price
    observers,      \* Stock._observers
    notified,       \* the observers whose update() the last call on the
                    \* stock called, in the order of the calls
    attached_at,    \* for every observer, the number of the attach() call
                    \* it is attached by (0: it is not attached)
    olast,          \* the last call on the stock and the state it found
    ocalls,         \* how many calls the client has made on the stock
    \* Adapter (src/Structural/adapter.py)
    auth_code,      \* PaymentAdapter._state.auth_code
    gateway_log,    \* the calls made on the LegacyGateway, oldest first
    areturn,        \* what the last call on the adapter returned
    alast,          \* the last call on the adapter and the state it found
    acalls,         \* how many calls the client has made on the adapter
    \* Proxy (src/Structural/proxy.py)
    proxies,        \* the ProxyDocument objects created: _user_role,
                    \* _real_document, and how many display() calls each got
    real_documents, \* the RealDocument objects created: for each, the proxy
                    \* that created it; a RealDocument's identity is its index
    rendered,       \* the RealDocument.display() calls made: the proxy and
                    \* the RealDocument of each
    plast,          \* the last call on the unit and how it ended
    pcalls,         \* how many calls the client has made on the unit
    \* Mediator (src/Behavoral/mediator.py)
    participants,   \* ConcreteChatMediator._participants: for every uid the
                    \* participant registered under it (0: the uid is no key)
    members,        \* the Participant objects created: class, name and, for
                    \* a User, the uid it was created with; a participant's
                    \* identity is its index
    received,       \* the receive() calls made: the participant called, the
                    \* sender and the message passed
    clast,          \* the last call on the unit and the state it found
    ccalls          \* how many calls the client has made on the unit

commandVars == <<content, content0, deleted_text, history, redo_stack, last,
                 pc, main_ins, main_del, calls>>
playerVars == <<player_state, presses, visited, set_states>>
loggerVars == <<instance, lock, tpc, tobj, tret, nobjects, nassign>>
mementoVars == <<dicts, editor_dict, last_change, mementos, mhistory,
                 undo_result, mlast, timeline, snap_at, saved_len, undos_ok,
                 mcalls>>

observerVars == <<stock_price, observers, notified, attached_at, olast, ocalls>>

adapterVars == <<auth_code, gateway_log, areturn, alast, acalls>>

proxyVars == <<proxies, real_documents, rendered, plast, pcalls>>

mediatorVars == <<participants, members, received, clast, ccalls>>

vars == <<commandVars, playerVars, loggerVars, mementoVars, observerVars, adapterVars, proxyVars, mediatorVars>>

\* the units other than Command, other than State
notCommandVars == <<playerVars, loggerVars, mementoVars, observerVars, adapterVars, proxyVars, mediatorVars>>
notPlayerVars == <<commandVars, loggerVars, mementoVars, observerVars, adapterVars, proxyVars, mediatorVars>>

----------------------------------------------------------------------------
(* The State unit as constructed *)

\* MediaPlayers.__init__: self._state = StoppedState()
MediaPlayers_init_unset == "NoneType"

MediaPlayers_init == "StoppedState"

InitPlayer ==
    /\ player_state = MediaPlayers_init
    /\ presses = <<>>
    /\ visited = <<>>
    /\ set_states = <<>>

----------------------------------------------------------------------------
(* The Singleton unit as loaded: no Logger yet, the lock free, no thread   *)
(* started                                                                 *)

\* the threads that call into Logger
NumThreads == 5
Threads == 1..NumThreads

InitLogger ==
    /\ instance = 0
    /\ lock = 0
    /\ tpc = [t \in Threads |-> "idle"]
    /\ tobj = [t \in Threads |-> 0]
    /\ tret = [t \in Threads |-> 0]
    /\ nobjects = 0
    /\ nassign = 0

----------------------------------------------------------------------------
(* The Memento unit as constructed: FormEditor(initial_data) and           *)
(* HistoryManager()                                                        *)

Fields == {"name", "email"}
Values == {"Alice", "Bob"}

InitMemento ==
    /\ dicts \in {<<d>> : d \in [Fields -> Values]}
    /\ editor_dict = 1
    /\ last_change = <<"Initialization">>
    /\ mementos = <<>>
    /\ mhistory = <<>>
    /\ undo_result = 0
    /\ mlast = [op |-> "init", history |-> <<>>, timeline |-> <<>>]
    /\ timeline = <<dicts[1]>>
    /\ snap_at = <<>>
    /\ saved_len = 0
    /\ undos_ok = 0
    /\ mcalls = 0

\* the unit at rest, for the specifications of other units
MementoAtRest ==
    /\ InitMemento
    /\ dicts = <<[f \in Fields |-> "Alice"]>>

----------------------------------------------------------------------------
(* The Observer unit as constructed: Stock("TSLA", 250.00) and the three   *)
(* observers of the __main__ block, none attached yet                      *)

Observers == {"ui_display", "analytics_logger", "alert_system"}
Prices == {250, 252, 260}

InitStock ==
    /\ stock_price = 250
    /\ observers = <<>>
    /\ notified = <<>>
    /\ attached_at = [o \in Observers |-> 0]
    /\ olast = [op |-> "init", arg |-> 0, price |-> 250, observers |-> <<>>]
    /\ ocalls = 0

----------------------------------------------------------------------------
(* The Adapter unit as constructed: PaymentAdapter(LegacyGateway())        *)

\* a string built by an f-string is the sequence of its parts; "" is <<>>
AdapterState_auth_code == <<>>

InitAdapter ==
    /\ auth_code = AdapterState_auth_code
    /\ gateway_log = <<>>
    /\ areturn = <<>>
    /\ alast = [op |-> "init", auth_code |-> <<>>, gateway_log |-> <<>>]
    /\ acalls = 0

----------------------------------------------------------------------------
(* The Proxy unit as loaded: no ProxyDocument has been created             *)

InitProxy ==
    /\ proxies = <<>>
    /\ real_documents = <<>>
    /\ rendered = <<>>
    /\ plast = [op |-> "init", proxy |-> 0, outcome |-> "none"]
    /\ pcalls = 0

----------------------------------------------------------------------------
(* The Mediator unit as constructed: ConcreteChatMediator()                *)

Uids == {"alice_id", "bob_id", "Alice"}

InitMediator ==
    /\ participants = [uid \in Uids |-> 0]
    /\ members = <<>>
    /\ received = <<>>
    /\ clast = [op |-> "init", sender |-> 0, receiver_id |-> "", message |-> <<>>,
                received |-> <<>>]
    /\ ccalls = 0

NotCommandInit == InitPlayer /\ InitLogger /\ MementoAtRest /\ InitStock /\ InitAdapter /\ InitProxy /\ InitMediator

----------------------------------------------------------------------------
(* Bounds of the exploration *)

\* a client of the invoker makes at most this many calls
MaxCalls == 4
\* a client of the command objects makes at most this many calls
MaxDirectCalls == 3
\* the save-then-change protocol runs at most this many steps
MaxBeforeSteps == 4
\* a client of the editor and its mementos makes at most this many calls
MaxIsolationCalls == 3
\* a client of the stock makes at most this many calls
MaxStockCalls == 5
\* a client of the payment adapter makes at most this many calls
MaxAdapterCalls == 5
\* a client of the document proxies makes at most this many calls
MaxProxyCalls == 4
\* a client of the chat mediator makes at most this many calls
MaxMediatorCalls == 4
\* a client of the player presses at most this many buttons
MaxPresses == 6
\* a client of the editor and the history manager makes at most this many
\* calls
MaxMementoCalls == 4
\* the change-and-undo protocol runs at most this many steps after saving
\* the baseline
MaxDemoSteps == 4

----------------------------------------------------------------------------
(* Texts *)

Fox == <<"T","h","e"," ","q","u","i","c","k"," ","b","r","o","w","n"," ",
         "f","o","x",".">>
Lazy == <<"l","a","z","y"," ">>
LazyFox == <<"T","h","e"," ","l","a","z","y"," ","q","u","i","c","k"," ",
             "b","r","o","w","n"," ","f","o","x",".">>
LazyQuickFox == <<"T","h","e"," ","l","a","z","y"," ","q","u","i","c","k",
                  " ","f","o","x",".">>
Brown == <<"b","r","o","w","n"," ">>

\* the contents a TextEditor is constructed with
Contents == { <<>>, <<"a","b">>, <<"a","b","c">>, Fox }

----------------------------------------------------------------------------
(* Python's slicing of a sequence of length n: an index below 0 counts     *)
(* from the end, and every index is then clamped into 0..n.                *)

SliceIndex(i, n) ==
    IF i < 0 THEN (IF i + n < 0 THEN 0 ELSE i + n)
    ELSE IF i > n THEN n ELSE i

\* s[a:b]
Slice(s, a, b) ==
    LET lo == SliceIndex(a, Len(s))
        hi == SliceIndex(b, Len(s))
    IN  IF lo >= hi THEN <<>> ELSE SubSeq(s, lo + 1, hi)

\* s[:b]
SliceTo(s, b) ==
    LET hi == SliceIndex(b, Len(s))
    IN  IF hi = 0 THEN <<>> ELSE SubSeq(s, 1, hi)

\* s[a:]
SliceFrom(s, a) ==
    LET lo == SliceIndex(a, Len(s))
    IN  IF lo >= Len(s) THEN <<>> ELSE SubSeq(s, lo + 1, Len(s))

----------------------------------------------------------------------------
(* The Receiver: TextEditor *)

insert_text_overwriting(c, text, position) ==
    SliceTo(c, position) \o text \o SliceFrom(c, position + 1)

\* the content after insert_text(text, position)
insert_text(c, text, position) ==
    SliceTo(c, position) \o text \o SliceFrom(c, position)

\* the value delete_text(start, end) returns
delete_text_deleted(c, start, end) == Slice(c, start, end)

delete_text_offbyone(c, start, end) == SliceTo(c, start) \o SliceFrom(c, end + 1)

\* the content after delete_text(start, end)
delete_text(c, start, end) == SliceTo(c, start) \o SliceFrom(c, end)

----------------------------------------------------------------------------
(* The command objects.  I1 and D1 are the two objects of the client       *)
(* script; the others are further objects a client can construct, with     *)
(* positions inside and outside the contents above.                        *)

CommandObjects ==
    [ I1 |-> [kind |-> "Insert", text |-> Lazy, position |-> 4],
      I2 |-> [kind |-> "Insert", text |-> <<"x">>, position |-> 1],
      I3 |-> [kind |-> "Insert", text |-> <<"x","y">>, position |-> -1],
      D1 |-> [kind |-> "Delete", start |-> 14, end |-> 20],
      D2 |-> [kind |-> "Delete", start |-> 0, end |-> 1],
      D3 |-> [kind |-> "Delete", start |-> 2, end |-> 1],
      D4 |-> [kind |-> "Delete", start |-> -2, end |-> 3] ]

Commands == DOMAIN CommandObjects
InsertCommands == {c \in Commands : CommandObjects[c].kind = "Insert"}
DeleteCommands == {c \in Commands : CommandObjects[c].kind = "Delete"}

\* Optional[str]: None, or a string
None == <<>>
Some(s) == <<s>>

\* A command call's outcome: the editor's content, the _deleted_text slots
\* and the exception that reaches the caller ("none": the call returns).
Outcome(c, d, r) == [content |-> c, deleted |-> d, raised |-> r]

InsertTextCommand_execute(cmd, c, d) ==
    Outcome(insert_text(c, CommandObjects[cmd].text, CommandObjects[cmd].position),
            d, "none")

InsertTextCommand_undo(cmd, c, d) ==
    Outcome(delete_text(c, CommandObjects[cmd].position,
                        CommandObjects[cmd].position + Len(CommandObjects[cmd].text)),
            d, "none")

DeleteTextCommand_execute(cmd, c, d) ==
    Outcome(delete_text(c, CommandObjects[cmd].start, CommandObjects[cmd].end),
            [d EXCEPT ![cmd] = Some(delete_text_deleted(c, CommandObjects[cmd].start,
                                                        CommandObjects[cmd].end))],
            "none")

DeleteTextCommand_undo_raising(cmd, c, d) ==
    IF d[cmd] # None
    THEN Outcome(insert_text(c, d[cmd][1], CommandObjects[cmd].start), d, "none")
    ELSE Outcome(c, d, "InvalidState")

DeleteTextCommand_undo(cmd, c, d) ==
    IF d[cmd] # None
    THEN Outcome(insert_text(c, d[cmd][1], CommandObjects[cmd].start), d, "none")
    ELSE Outcome(c, d, "none")

\* dynamic dispatch of Command.execute / Command.undo
Command_execute(cmd, c, d) ==
    IF cmd \in InsertCommands THEN InsertTextCommand_execute(cmd, c, d)
    ELSE DeleteTextCommand_execute(cmd, c, d)

Command_undo(cmd, c, d) ==
    IF cmd \in InsertCommands THEN InsertTextCommand_undo(cmd, c, d)
    ELSE DeleteTextCommand_undo(cmd, c, d)

----------------------------------------------------------------------------
(* The record of the last call *)

NoCall == [op |-> "none", cmd |-> "none", content |-> <<>>,
           history |-> <<>>, redo_stack |-> <<>>]

\* the call before: the last call's record without its own predecessor
Previous ==
    [op |-> last.op, cmd |-> last.cmd, content |-> last.content,
     history |-> last.history, redo_stack |-> last.redo_stack]

\* a call op(cmd) made in the current state, raising r and reporting rep
Call(op, cmd, r, rep) ==
    [op |-> op, cmd |-> cmd, content |-> content, history |-> history,
     redo_stack |-> redo_stack, deleted |-> deleted_text,
     raised |-> r, report |-> rep, prev |-> Previous]

----------------------------------------------------------------------------
(* Construction: TextEditor(content), the command objects, CommandInvoker() *)

InitEditor ==
    /\ content0 \in Contents
    /\ content = content0
    /\ deleted_text = [c \in DeleteCommands |-> None]
    /\ history = <<>>
    /\ redo_stack = <<>>
    /\ last = [op |-> "init", cmd |-> "none", content |-> content0,
               history |-> <<>>, redo_stack |-> <<>>,
               deleted |-> [c \in DeleteCommands |-> None],
               raised |-> "none", report |-> "", prev |-> NoCall]

----------------------------------------------------------------------------
(* The Invoker: CommandInvoker *)

execute_command_keeps_redo(cmd) ==
    LET r == Command_execute(cmd, content, deleted_text)
    IN  /\ content' = r.content
        /\ deleted_text' = r.deleted
        /\ history' = Append(history, cmd)
        /\ redo_stack' = redo_stack
        /\ last' = Call("execute_command", cmd, r.raised, "executed")

execute_command(cmd) ==
    LET r == Command_execute(cmd, content, deleted_text)
    IN  /\ content' = r.content
        /\ deleted_text' = r.deleted
        /\ history' = Append(history, cmd)
        /\ redo_stack' = <<>>
        /\ last' = Call("execute_command", cmd, r.raised, "executed")

undo_clears_redo ==
    IF history = <<>>
    THEN /\ last' = Call("undo", "none", "none", "cannot_undo")
         /\ redo_stack' = <<>>
         /\ UNCHANGED <<content, deleted_text, history>>
    ELSE LET command == history[Len(history)]
             r == Command_undo(command, content, deleted_text)
         IN  /\ history' = SubSeq(history, 1, Len(history) - 1)
             /\ content' = r.content
             /\ deleted_text' = r.deleted
             /\ redo_stack' = Append(redo_stack, command)
             /\ last' = Call("undo", command, r.raised, "undo_ok")

undo_oldest ==
    IF history = <<>>
    THEN /\ last' = Call("undo", "none", "none", "cannot_undo")
         /\ UNCHANGED <<content, deleted_text, history, redo_stack>>
    ELSE LET command == history[1]
             r == Command_undo(command, content, deleted_text)
         IN  /\ history' = Tail(history)
             /\ content' = r.content
             /\ deleted_text' = r.deleted
             /\ redo_stack' = Append(redo_stack, command)
             /\ last' = Call("undo", command, r.raised, "undo_ok")

undo ==
    IF history = <<>>
    THEN /\ last' = Call("undo", "none", "none", "cannot_undo")
         /\ UNCHANGED <<content, deleted_text, history, redo_stack>>
    ELSE LET command == history[Len(history)]
             r == Command_undo(command, content, deleted_text)
         IN  /\ history' = SubSeq(history, 1, Len(history) - 1)
             /\ content' = r.content
             /\ deleted_text' = r.deleted
             /\ redo_stack' = Append(redo_stack, command)
             /\ last' = Call("undo", command, r.raised, "undo_ok")

redo_replays_history ==
    IF redo_stack = <<>>
    THEN IF history = <<>>
         THEN /\ last' = Call("redo", "none", "none", "cannot_redo")
              /\ UNCHANGED <<content, deleted_text, history, redo_stack>>
         ELSE LET command == history[Len(history)]
                  r == Command_execute(command, content, deleted_text)
              IN  /\ content' = r.content
                  /\ deleted_text' = r.deleted
                  /\ history' = Append(history, command)
                  /\ redo_stack' = redo_stack
                  /\ last' = Call("redo", command, r.raised, "redo_ok")
    ELSE LET command == redo_stack[Len(redo_stack)]
             r == Command_execute(command, content, deleted_text)
         IN  /\ redo_stack' = SubSeq(redo_stack, 1, Len(redo_stack) - 1)
             /\ content' = r.content
             /\ deleted_text' = r.deleted
             /\ history' = Append(history, command)
             /\ last' = Call("redo", command, r.raised, "redo_ok")

redo ==
    IF redo_stack = <<>>
    THEN /\ last' = Call("redo", "none", "none", "cannot_redo")
         /\ UNCHANGED <<content, deleted_text, history, redo_stack>>
    ELSE LET command == redo_stack[Len(redo_stack)]
             r == Command_execute(command, content, deleted_text)
         IN  /\ redo_stack' = SubSeq(redo_stack, 1, Len(redo_stack) - 1)
             /\ content' = r.content
             /\ deleted_text' = r.deleted
             /\ history' = Append(history, command)
             /\ last' = Call("redo", command, r.raised, "redo_ok")

----------------------------------------------------------------------------
(* A client calling a command object itself, without an invoker *)

cmd_execute(cmd) ==
    LET r == Command_execute(cmd, content, deleted_text)
    IN  /\ content' = r.content
        /\ deleted_text' = r.deleted
        /\ last' = Call("cmd_execute", cmd, r.raised, "")
        /\ UNCHANGED <<history, redo_stack>>

cmd_undo(cmd) ==
    LET r == Command_undo(cmd, content, deleted_text)
    IN  /\ content' = r.content
        /\ deleted_text' = r.deleted
        /\ last' = Call("cmd_undo", cmd, r.raised, "")
        /\ UNCHANGED <<history, redo_stack>>

----------------------------------------------------------------------------
(* Specifications *)

NoScript == pc = 0 /\ main_ins = "none" /\ main_del = "none"

\* Spec: any client of one CommandInvoker (execute_command, undo, redo)
Init == InitEditor /\ NoScript /\ calls = 0 /\ NotCommandInit

InvokerExecute ==
    \E cmd \in Commands :
        /\ calls < MaxCalls
        /\ execute_command(cmd)
        /\ calls' = calls + 1
        /\ UNCHANGED <<content0, pc, main_ins, main_del, notCommandVars>>

InvokerUndo ==
    /\ calls < MaxCalls
    /\ undo
    /\ calls' = calls + 1
    /\ UNCHANGED <<content0, pc, main_ins, main_del, notCommandVars>>

InvokerRedo ==
    /\ calls < MaxCalls
    /\ redo
    /\ calls' = calls + 1
    /\ UNCHANGED <<content0, pc, main_ins, main_del, notCommandVars>>

Next == InvokerExecute \/ InvokerUndo \/ InvokerRedo

Spec == Init /\ [][Next]_vars

\* SpecDirect: a client calling execute() and undo() on the command objects
DirectExecute ==
    \E cmd \in Commands :
        /\ calls < MaxDirectCalls
        /\ cmd_execute(cmd)
        /\ calls' = calls + 1
        /\ UNCHANGED <<content0, pc, main_ins, main_del, notCommandVars>>

DirectUndo ==
    \E cmd \in Commands :
        /\ calls < MaxDirectCalls
        /\ cmd_undo(cmd)
        /\ calls' = calls + 1
        /\ UNCHANGED <<content0, pc, main_ins, main_del, notCommandVars>>

NextDirect == DirectExecute \/ DirectUndo

SpecDirect == Init /\ [][NextDirect]_vars

\* SpecMain: the client script of the __main__ block, with the editor's
\* content and the two command objects drawn from the sets above
InitMain ==
    /\ InitEditor
    /\ pc = 0
    /\ calls = 0
    /\ main_ins \in InsertCommands
    /\ main_del \in DeleteCommands
    /\ NotCommandInit

MainExecuteInsert ==
    /\ pc = 0
    /\ execute_command(main_ins)
    /\ pc' = 1
    /\ calls' = calls + 1
    /\ UNCHANGED <<content0, main_ins, main_del, notCommandVars>>

MainExecuteDelete ==
    /\ pc = 1
    /\ execute_command(main_del)
    /\ pc' = 2
    /\ calls' = calls + 1
    /\ UNCHANGED <<content0, main_ins, main_del, notCommandVars>>

MainUndo ==
    /\ pc \in {2, 3}
    /\ undo
    /\ pc' = pc + 1
    /\ calls' = calls + 1
    /\ UNCHANGED <<content0, main_ins, main_del, notCommandVars>>

MainRedo ==
    /\ pc \in {4, 5}
    /\ redo
    /\ pc' = pc + 1
    /\ calls' = calls + 1
    /\ UNCHANGED <<content0, main_ins, main_del, notCommandVars>>

NextMain == MainExecuteInsert \/ MainExecuteDelete \/ MainUndo \/ MainRedo

SpecMain == InitMain /\ [][NextMain]_vars

----------------------------------------------------------------------------
(* Properties of the Command / undo-redo unit *)

\* the content after the commands of h have been executed on c, oldest first
RECURSIVE ApplyHistory(_, _)
ApplyHistory(h, c) ==
    IF h = <<>> THEN c
    ELSE ApplyHistory(Tail(h), Command_execute(Head(h), c, deleted_text).content)

Reverse(s) == [i \in 1..Len(s) |-> s[Len(s) + 1 - i]]

InvokerUnchanged ==
    /\ content = last.content
    /\ history = last.history
    /\ redo_stack = last.redo_stack
    /\ deleted_text = last.deleted

\* C1: a command's execute() followed directly by its undo() leaves the
\* content equal to its value before the execute(), for every command and
\* every content.
C1_RoundTrip ==
    (last.op = "cmd_undo" /\ last.prev.op = "cmd_execute" /\ last.prev.cmd = last.cmd)
        => content = last.prev.content

\* C2: after any sequence of execute_command, undo and redo calls, the
\* content is the initial content with the commands of history applied,
\* oldest first.
C2_ContentIsHistoryApplied == content = ApplyHistory(history, content0)

\* C3: execute_command(cmd) runs cmd.execute(), appends cmd to history and
\* empties the redo stack; a redo() directly after an execute_command reports
\* that there is nothing to redo and changes nothing.
C3_ExecuteClearsRedo ==
    /\ last.op = "execute_command" =>
          /\ content = Command_execute(last.cmd, last.content, last.deleted).content
          /\ history = Append(last.history, last.cmd)
          /\ redo_stack = <<>>
    /\ (last.op = "redo" /\ last.prev.op = "execute_command") =>
          /\ last.report = "cannot_redo"
          /\ last.raised = "none"
          /\ InvokerUnchanged

\* execute_command(A), undo(), execute_command(B), redo(): the second
\* execute_command found A on the redo stack
C3_Witness ==
    /\ last.op = "redo"
    /\ last.prev.op = "execute_command"
    /\ last.prev.redo_stack # <<>>
    /\ last.prev.cmd \notin {last.prev.redo_stack[i] : i \in 1..Len(last.prev.redo_stack)}

\* C4: undo() on an empty history raises nothing and leaves the content,
\* history and the redo stack unchanged, however often it is repeated.
C4_UndoOnEmptyHistory ==
    (last.op = "undo" /\ last.history = <<>>) =>
        /\ last.raised = "none"
        /\ last.report = "cannot_undo"
        /\ InvokerUnchanged

\* two undo() calls in a row on an empty history, with a command to redo
C4_Witness ==
    /\ last.op = "undo" /\ last.history = <<>>
    /\ last.prev.op = "undo" /\ last.prev.history = <<>>
    /\ redo_stack # <<>>

\* C5: redo() on an empty redo stack raises nothing and leaves the content,
\* history and the redo stack unchanged.
C5_RedoOnEmptyRedoStack ==
    (last.op = "redo" /\ last.redo_stack = <<>>) =>
        /\ last.raised = "none"
        /\ last.report = "cannot_redo"
        /\ InvokerUnchanged

\* redo() with nothing to redo while history holds a command
C5_Witness ==
    /\ last.op = "redo" /\ last.redo_stack = <<>>
    /\ history # <<>>

\* C6: both stacks start empty; undo() moves exactly the last command of
\* history to the end of the redo stack after calling its undo(); redo()
\* moves exactly the last command of the redo stack to the end of history
\* after calling its execute(); history followed by the reversed redo stack
\* is the same sequence before and after every undo() and redo().
C6_LifoOrdering ==
    /\ last.op = "init" => (history = <<>> /\ redo_stack = <<>>)
    /\ (last.op = "undo" /\ last.history # <<>>) =>
          /\ last.cmd = last.history[Len(last.history)]
          /\ history = SubSeq(last.history, 1, Len(last.history) - 1)
          /\ redo_stack = Append(last.redo_stack, last.cmd)
          /\ content = Command_undo(last.cmd, last.content, last.deleted).content
    /\ (last.op = "redo" /\ last.redo_stack # <<>>) =>
          /\ last.cmd = last.redo_stack[Len(last.redo_stack)]
          /\ redo_stack = SubSeq(last.redo_stack, 1, Len(last.redo_stack) - 1)
          /\ history = Append(last.history, last.cmd)
          /\ content = Command_execute(last.cmd, last.content, last.deleted).content
    /\ last.op \in {"undo", "redo"} =>
          history \o Reverse(redo_stack) = last.history \o Reverse(last.redo_stack)

\* a redo() after an undo() that found two different commands in history
C6_Witness ==
    /\ last.op = "redo" /\ last.redo_stack # <<>>
    /\ last.prev.op = "undo"
    /\ Len(last.prev.history) = 2
    /\ last.prev.history[1] # last.prev.history[2]

\* a Delete(start, end) whose range lies outside a content of length n
OutOfRange(start, end, n) ==
    start < 0 \/ start > n \/ end < 0 \/ end > n \/ start > end

\* C7: executing a Delete whose range lies outside the content raises
\* OutOfRange and leaves the content unchanged.
C7_DeleteOutOfRangeRaises ==
    (/\ last.op = "cmd_execute"
     /\ last.cmd \in DeleteCommands
     /\ OutOfRange(CommandObjects[last.cmd].start, CommandObjects[last.cmd].end,
                   Len(last.content)))
        => (last.raised = "OutOfRange" /\ content = last.content)

\* undo() was called on a Delete object whose execute() never ran
UndoBeforeExecute ==
    /\ last.op = "cmd_undo"
    /\ last.cmd \in DeleteCommands
    /\ last.deleted[last.cmd] = None

\* C8 (as stated): undo() on a Delete whose execute() never ran raises
\* InvalidState and leaves the content unchanged.
C8_UndoBeforeExecuteRaises ==
    UndoBeforeExecute => (last.raised = "InvalidState" /\ content = last.content)

\* C8 (amended): undo() on a Delete whose execute() never ran raises nothing:
\* it returns without any effect, leaving the content and the command's
\* captured text unchanged.
C8_UndoBeforeExecuteIgnored ==
    UndoBeforeExecute =>
        (last.raised = "none" /\ content = last.content /\ deleted_text = last.deleted)

\* undo() on a never executed Delete, on a content that is not empty, after
\* another command ran
C8_Witness ==
    /\ UndoBeforeExecute
    /\ content # <<>>
    /\ last.prev.op = "cmd_execute"

\* new is old with text inserted at index p: text occupies [p, p + Len(text)),
\* before it lies old[0, p) and after it old[p, end)
InsertedAt(new, old, text, p) ==
    /\ Len(new) = Len(old) + Len(text)
    /\ p >= 0 /\ p <= Len(old)
    /\ \A i \in 1..Len(text) : new[p + i] = text[i]
    /\ \A i \in 1..p : new[i] = old[i]
    /\ \A i \in (p + 1)..Len(old) : new[i + Len(text)] = old[i]

\* C9 (as stated): for every content and every position, Insert.execute()
\* puts text at [position, position + len(text)) between the old content's
\* two parts, and undo() removes exactly that span.
C9_InsertAtEveryPosition ==
    /\ (last.op = "cmd_execute" /\ last.cmd \in InsertCommands) =>
          InsertedAt(content, last.content, CommandObjects[last.cmd].text,
                     CommandObjects[last.cmd].position)
    /\ (/\ last.op = "cmd_undo" /\ last.cmd \in InsertCommands
        /\ last.prev.op = "cmd_execute" /\ last.prev.cmd = last.cmd) =>
          content = last.prev.content

\* position lies within a content of length n
InRange(position, n) == 0 <= position /\ position <= n

\* C9 (amended): for every content and every position with
\* 0 <= position <= len(content), Insert.execute() puts text at
\* [position, position + len(text)) between the old content's two parts, and
\* undo() called next removes exactly that span.
C9_InsertAtPositionInRange ==
    /\ (/\ last.op = "cmd_execute" /\ last.cmd \in InsertCommands
        /\ InRange(CommandObjects[last.cmd].position, Len(last.content))) =>
          InsertedAt(content, last.content, CommandObjects[last.cmd].text,
                     CommandObjects[last.cmd].position)
    /\ (/\ last.op = "cmd_undo" /\ last.cmd \in InsertCommands
        /\ last.prev.op = "cmd_execute" /\ last.prev.cmd = last.cmd
        /\ InRange(CommandObjects[last.cmd].position, Len(last.prev.content))) =>
          /\ content = last.prev.content
          /\ Len(content) = Len(last.content) - Len(CommandObjects[last.cmd].text)

\* an Insert strictly inside a content, executed and then undone
C9_Witness ==
    /\ last.op = "cmd_undo" /\ last.cmd \in InsertCommands
    /\ last.prev.op = "cmd_execute" /\ last.prev.cmd = last.cmd
    /\ 0 < CommandObjects[last.cmd].position
    /\ CommandObjects[last.cmd].position < Len(last.prev.content)

\* the client script's own inputs
Scenario == content0 = Fox /\ main_ins = "I1" /\ main_del = "D1"

\* C10: from "The quick brown fox.", the script's Insert("lazy ", 4),
\* Delete(14, 20), undo, undo, redo, redo give in turn
\* "The lazy quick brown fox.", "The lazy quick fox.",
\* "The lazy quick brown fox.", "The quick brown fox.",
\* "The lazy quick brown fox.", "The lazy quick fox.".
C10_ScenarioTrace ==
    Scenario =>
        content = <<Fox, LazyFox, LazyQuickFox, LazyFox, Fox, LazyFox,
                    LazyQuickFox>>[pc + 1]

\* the script has run to its end
C10_Witness == Scenario /\ pc = 6 /\ last.op = "redo" /\ last.report = "redo_ok"

\* the characters of c whose index i (from 0) has start <= i < end
CharsAt(c, start, end) ==
    LET hi == IF end < Len(c) THEN end ELSE Len(c)
    IN  [i \in 1..(IF hi > start THEN hi - start ELSE 0) |-> c[start + i]]

\* C11: in the script's scenario Delete(14, 20) removes from
\* "The lazy quick brown fox." and captures exactly "brown "; a
\* Delete(start, end) captures the characters at the indices [start, end) of
\* the content it is executed on (indices counted from 0, from the front).
C11_DeleteCaptures ==
    /\ (Scenario /\ pc >= 2) => deleted_text["D1"] = Some(Brown)
    /\ (/\ last.op \in {"execute_command", "redo"}
        /\ last.cmd \in DeleteCommands
        /\ CommandObjects[last.cmd].start >= 0) =>
          deleted_text[last.cmd] =
              Some(CharsAt(last.content, CommandObjects[last.cmd].start,
                           CommandObjects[last.cmd].end))

\* the script has just executed Delete(14, 20) on "The lazy quick brown fox."
C11_Witness ==
    /\ Scenario /\ pc = 2
    /\ last.op = "execute_command" /\ last.cmd = "D1"
    /\ last.content = LazyFox
    /\ content = LazyQuickFox

\* C17: undo() on a non-empty history followed directly by redo() leaves the
\* content, history and the redo stack as they were before the undo().
C17_UndoRedoIdentity ==
    (last.op = "redo" /\ last.prev.op = "undo" /\ last.prev.history # <<>>) =>
        /\ content = last.prev.content
        /\ history = last.prev.history
        /\ redo_stack = last.prev.redo_stack

\* command cmd lies within a content of length n
InBounds(cmd, n) ==
    IF cmd \in InsertCommands
    THEN InRange(CommandObjects[cmd].position, n)
    ELSE /\ 0 <= CommandObjects[cmd].start
         /\ CommandObjects[cmd].start <= CommandObjects[cmd].end
         /\ CommandObjects[cmd].end <= n

\* C18: a command object given to execute_command twice appears twice in
\* history, and undoing both entries restores the initial content (here for
\* an object whose two executions both lie within the content).
C18_SameObjectTwice ==
    \A cmd \in Commands :
        (/\ calls = 4
         /\ last.op = "undo" /\ last.prev.op = "undo"
         /\ last.prev.history = <<cmd, cmd>>
         /\ InBounds(cmd, Len(content0))
         /\ InBounds(cmd, Len(Command_execute(cmd, content0, deleted_text).content)))
            => (history = <<>> /\ content = content0)

----------------------------------------------------------------------------
(* The Command unit as constructed, for the specifications of other units *)

CommandAtRest ==
    /\ InitEditor
    /\ content0 = <<>>
    /\ NoScript
    /\ calls = 0

----------------------------------------------------------------------------
(* The State unit: MediaPlayers and its PlayerState classes.  A handler is *)
(* the sequence of the set_state calls it makes, each named by the class   *)
(* of the state object it passes.                                          *)

PlayerStates == {"StoppedState", "PlayingState", "PausedState"}
PlayerActions == {"play", "pause", "stop"}

StoppedState_play_ignored == <<>>

StoppedState_play == <<"PlayingState">>
StoppedState_pause == <<>>
StoppedState_stop == <<>>

PlayingState_pause_stops == <<"StoppedState">>

PlayingState_play == <<>>
PlayingState_pause == <<"PausedState">>
PlayingState_stop == <<"StoppedState">>

PausedState_play == <<"PlayingState">>
PausedState_pause == <<>>
PausedState_stop == <<"StoppedState">>

\* self._state.<action>(self): dispatch on the class of the current state
PlayerState_handle(state, action) ==
    CASE state = "StoppedState" /\ action = "play"  -> StoppedState_play
      [] state = "StoppedState" /\ action = "pause" -> StoppedState_pause
      [] state = "StoppedState" /\ action = "stop"  -> StoppedState_stop
      [] state = "PlayingState" /\ action = "play"  -> PlayingState_play
      [] state = "PlayingState" /\ action = "pause" -> PlayingState_pause
      [] state = "PlayingState" /\ action = "stop"  -> PlayingState_stop
      [] state = "PausedState" /\ action = "play"   -> PausedState_play
      [] state = "PausedState" /\ action = "pause"  -> PausedState_pause
      [] state = "PausedState" /\ action = "stop"   -> PausedState_stop

\* the player's state after the set_state calls of sets, made in order
set_state(state, sets) == IF sets = <<>> THEN state ELSE sets[Len(sets)]

\* the player's state after action is pressed in state
StateAfter(state, action) == set_state(state, PlayerState_handle(state, action))

\* press_play / press_pause / press_stop
press(action) ==
    /\ player_state' = StateAfter(player_state, action)
    /\ presses' = Append(presses, action)
    /\ visited' = Append(visited, StateAfter(player_state, action))
    /\ set_states' = Append(set_states, Len(PlayerState_handle(player_state, action)))

(* SpecPlayer: any client of one MediaPlayers *)
InitPlayerSpec == InitPlayer /\ CommandAtRest /\ InitLogger /\ MementoAtRest /\ InitStock /\ InitAdapter /\ InitProxy /\ InitMediator

press_play ==
    /\ Len(presses) < MaxPresses
    /\ press("play")
    /\ UNCHANGED notPlayerVars

press_pause ==
    /\ Len(presses) < MaxPresses
    /\ press("pause")
    /\ UNCHANGED notPlayerVars

press_stop ==
    /\ Len(presses) < MaxPresses
    /\ press("stop")
    /\ UNCHANGED notPlayerVars

NextPlayer == press_play \/ press_pause \/ press_stop

SpecPlayer == InitPlayerSpec /\ [][NextPlayer]_vars

----------------------------------------------------------------------------
(* Properties of the State unit *)

\* the state table, one row per state
StateTable ==
    [ StoppedState |-> [play |-> "PlayingState", pause |-> "StoppedState",
                        stop |-> "StoppedState"],
      PlayingState |-> [play |-> "PlayingState", pause |-> "PausedState",
                        stop |-> "StoppedState"],
      PausedState  |-> [play |-> "PlayingState", pause |-> "PausedState",
                        stop |-> "StoppedState"] ]

\* the player's state before its k-th press
StateBefore(k) == IF k = 1 THEN "StoppedState" ELSE visited[k - 1]

\* C12: each press takes the player from its state to the state the table
\* gives for that state and action; a press whose cell is a no-op makes no
\* set_state call; pause, play, pause, play, stop from the initial state
\* visits Stopped, Playing, Paused, Playing, Stopped.
C12_StateTable ==
    /\ \A k \in 1..Len(presses) :
          /\ visited[k] = StateTable[StateBefore(k)][presses[k]]
          /\ (visited[k] = StateBefore(k)) => set_states[k] = 0
    /\ (presses # <<>>) => player_state = visited[Len(visited)]
    /\ (presses = <<"pause", "play", "pause", "play", "stop">>) =>
          visited = <<"StoppedState", "PlayingState", "PausedState",
                      "PlayingState", "StoppedState">>

\* the trace of the claim has been pressed
C12_Witness ==
    /\ presses = <<"pause", "play", "pause", "play", "stop">>
    /\ player_state = "StoppedState"

\* C13: the player starts in Stopped, and after any presses its state is not
\* null and is one of Stopped, Playing, Paused.
C13_StateNeverNull ==
    /\ (presses = <<>>) => player_state = "StoppedState"
    /\ player_state # "NoneType"
    /\ player_state \in PlayerStates
    /\ \A k \in 1..Len(visited) : visited[k] \in PlayerStates

\* the player is paused after three presses
C13_Witness == Len(presses) >= 3 /\ player_state = "PausedState"

\* the states one press away from a state of S
OnePress(S) == {StateAfter(s, a) : s \in S, a \in PlayerActions}

\* the states some sequence of one or more presses leads to from state
ReachableFrom(state) ==
    LET R1 == OnePress({state})
        R2 == R1 \cup OnePress(R1)
        R3 == R2 \cup OnePress(R2)
    IN  R3

\* C14: in every reachable state some press changes the state, and every one
\* of Stopped, Playing, Paused can be reached again by some presses.
C14_NoTerminalState ==
    /\ \E a \in PlayerActions : StateAfter(player_state, a) # player_state
    /\ \A t \in PlayerStates : t \in ReachableFrom(player_state)

\* the player has been through all three states and is stopped again
C14_Witness ==
    /\ player_state = "StoppedState"
    /\ {visited[k] : k \in 1..Len(visited)} = PlayerStates

----------------------------------------------------------------------------
(* The Singleton unit: Logger.  A thread's call is a sequence of steps,    *)
(* one per access to Logger._instance or to the lock; the interpreter      *)
(* makes each of these accesses atomic.                                    *)

\* Logger.__init__ finding Logger._instance = inst: it raises, or it runs
\* its body and the object is constructed
Logger_init(inst) == IF inst # 0 THEN "raise" ELSE "constructed"

\* line 36: if Logger._instance is None
getInstance_check(t) ==
    /\ tpc[t] = "idle"
    /\ tpc' = [tpc EXCEPT ![t] = IF instance = 0 THEN "lock" ELSE "return"]
    /\ UNCHANGED <<instance, lock, tobj, tret, nobjects, nassign>>

getInstance_lock_not_taken(t) ==
    /\ tpc[t] = "lock"
    /\ tpc' = [tpc EXCEPT ![t] = "recheck"]
    /\ UNCHANGED <<instance, lock, tobj, tret, nobjects, nassign>>

\* line 39: with _singleton_lock (the thread waits while the lock is held)
getInstance_lock(t) ==
    /\ tpc[t] = "lock"
    /\ lock = 0
    /\ lock' = t
    /\ tpc' = [tpc EXCEPT ![t] = "recheck"]
    /\ UNCHANGED <<instance, tobj, tret, nobjects, nassign>>

\* line 41: if Logger._instance is None, inside the lock
getInstance_recheck(t) ==
    /\ tpc[t] = "recheck"
    /\ tpc' = [tpc EXCEPT ![t] = IF instance = 0 THEN "construct" ELSE "unlock"]
    /\ UNCHANGED <<instance, lock, tobj, tret, nobjects, nassign>>

\* line 42, right-hand side: Logger(); an exception leaves the with block,
\* which releases the lock, and reaches the caller
getInstance_construct(t) ==
    /\ tpc[t] = "construct"
    /\ IF Logger_init(instance) = "raise"
       THEN /\ lock' = 0
            /\ tret' = [tret EXCEPT ![t] = -1]
            /\ tpc' = [tpc EXCEPT ![t] = "done"]
            /\ UNCHANGED <<tobj, nobjects>>
       ELSE /\ nobjects' = nobjects + 1
            /\ tobj' = [tobj EXCEPT ![t] = nobjects + 1]
            /\ tpc' = [tpc EXCEPT ![t] = "assign"]
            /\ UNCHANGED <<lock, tret>>
    /\ UNCHANGED <<instance, nassign>>

\* line 42, the assignment: Logger._instance = <the new object>
getInstance_assign(t) ==
    /\ tpc[t] = "assign"
    /\ instance' = tobj[t]
    /\ nassign' = nassign + 1
    /\ tpc' = [tpc EXCEPT ![t] = "unlock"]
    /\ UNCHANGED <<lock, tobj, tret, nobjects>>

\* the end of the with block
getInstance_unlock(t) ==
    /\ tpc[t] = "unlock"
    /\ lock' = IF lock = t THEN 0 ELSE lock
    /\ tpc' = [tpc EXCEPT ![t] = "return"]
    /\ UNCHANGED <<instance, tobj, tret, nobjects, nassign>>

\* line 44: return Logger._instance
getInstance_return(t) ==
    /\ tpc[t] = "return"
    /\ tret' = [tret EXCEPT ![t] = instance]
    /\ tpc' = [tpc EXCEPT ![t] = "done"]
    /\ UNCHANGED <<instance, lock, tobj, nobjects, nassign>>

\* Logger() called by a client
Logger_direct(t) ==
    /\ tpc[t] = "idle"
    /\ IF Logger_init(instance) = "raise"
       THEN /\ tret' = [tret EXCEPT ![t] = -1]
            /\ UNCHANGED <<tobj, nobjects>>
       ELSE /\ nobjects' = nobjects + 1
            /\ tobj' = [tobj EXCEPT ![t] = nobjects + 1]
            /\ tret' = [tret EXCEPT ![t] = nobjects + 1]
    /\ tpc' = [tpc EXCEPT ![t] = "done"]
    /\ UNCHANGED <<instance, lock, nassign>>

notLoggerVars == <<commandVars, playerVars, mementoVars, observerVars, adapterVars, proxyVars, mediatorVars>>

InitLoggerSpec == InitLogger /\ CommandAtRest /\ InitPlayer /\ MementoAtRest /\ InitStock /\ InitAdapter /\ InitProxy /\ InitMediator

(* SpecSingleton: the threads call Logger.getInstance(), in any interleaving *)
ThreadCheck == \E t \in Threads : getInstance_check(t) /\ UNCHANGED notLoggerVars
ThreadLock == \E t \in Threads : getInstance_lock(t) /\ UNCHANGED notLoggerVars
ThreadRecheck == \E t \in Threads : getInstance_recheck(t) /\ UNCHANGED notLoggerVars
ThreadConstruct == \E t \in Threads : getInstance_construct(t) /\ UNCHANGED notLoggerVars
ThreadAssign == \E t \in Threads : getInstance_assign(t) /\ UNCHANGED notLoggerVars
ThreadUnlock == \E t \in Threads : getInstance_unlock(t) /\ UNCHANGED notLoggerVars
ThreadReturn == \E t \in Threads : getInstance_return(t) /\ UNCHANGED notLoggerVars

NextSingleton ==
    \/ ThreadCheck \/ ThreadLock \/ ThreadRecheck \/ ThreadConstruct
    \/ ThreadAssign \/ ThreadUnlock \/ ThreadReturn

SpecSingleton == InitLoggerSpec /\ [][NextSingleton]_vars

(* SpecLoggerCalls: one call after the other, each Logger() or          *)
(* Logger.getInstance(); caller t makes the t-th call                    *)
NoCallRunning == \A t \in Threads : tpc[t] \in {"idle", "done"}
NextCaller(t) == tpc[t] = "idle" /\ \A u \in 1..(t - 1) : tpc[u] = "done"

CallGetInstance ==
    \E t \in Threads :
        NoCallRunning /\ NextCaller(t) /\ getInstance_check(t) /\ UNCHANGED notLoggerVars

CallLogger ==
    \E t \in Threads :
        NoCallRunning /\ NextCaller(t) /\ Logger_direct(t) /\ UNCHANGED notLoggerVars

NextLoggerCalls ==
    \/ CallGetInstance \/ CallLogger
    \/ ThreadLock \/ ThreadRecheck \/ ThreadConstruct
    \/ ThreadAssign \/ ThreadUnlock \/ ThreadReturn

SpecLoggerCalls == InitLoggerSpec /\ [][NextLoggerCalls]_vars

----------------------------------------------------------------------------
(* Properties of the Singleton unit *)

Done == {t \in Threads : tpc[t] = "done"}

\* C15: with threads calling Logger.getInstance() in any interleaving, the
\* constructor body runs exactly once, Logger._instance is assigned exactly
\* once, and every caller receives that one instance, never None.
C15_SingletonUnderConcurrency ==
    /\ nobjects <= 1
    /\ nassign <= 1
    /\ \A t \in Done :
          /\ nobjects = 1
          /\ nassign = 1
          /\ tret[t] = 1
          /\ tret[t] = instance
          /\ tret[t] # 0

\* a thread that found no instance at the first check holds the lock after
\* finding the instance at the second check, which another thread
\* constructed and has already been returned
C15_Witness ==
    /\ \E u \in Threads : tpc[u] = "unlock" /\ lock = u /\ tobj[u] = 0
    /\ \E t \in Done : tobj[t] = 1 /\ tret[t] = 1

\* a direct Logger() call has run the constructor body while a Logger
\* object existed
SecondLogger == \E t \in Threads : tobj[t] >= 2

\* C16: over any sequence of Logger() and Logger.getInstance() calls at
\* most one Logger object is constructed; a Logger() call made when an
\* instance exists raises instead of constructing a second one.
C16_OnlyOneLogger ==
    /\ nobjects <= 1
    /\ ~SecondLogger

----------------------------------------------------------------------------
(* The Memento unit *)

\* the editor's field values: FormEditor.state
FieldValues == dicts[editor_dict]

\* dict.copy(): a new dict object with the entries of dict object d
dict_copy(h, d) == Append(h, h[d])

FormState_init_sharing(h, ms, field_values) ==
    [dicts |-> h, mementos |-> Append(ms, field_values)]

\* FormState(field_values): self._state = field_values.copy()
FormState_init(h, ms, field_values) ==
    [dicts |-> dict_copy(h, field_values), mementos |-> Append(ms, Len(h) + 1)]

\* FormEditor.update_field(field_name, new_value)
update_field(field_name, new_value) ==
    /\ last_change' = <<"Changed", field_name, FieldValues[field_name], new_value>>
    /\ dicts' = [dicts EXCEPT ![editor_dict][field_name] = new_value]
    /\ UNCHANGED <<editor_dict, mementos>>

\* history.save_state(editor.createMemento())
save_createMemento ==
    LET r == FormState_init(dicts, mementos, editor_dict)
    IN  /\ dicts' = r.dicts
        /\ mementos' = r.mementos
        /\ mhistory' = Append(mhistory, Len(r.mementos))
        /\ UNCHANGED <<editor_dict, last_change>>

HistoryManager_undo_returns_popped(h) ==
    IF Len(h) < 2
    THEN [history |-> h, result |-> 0]
    ELSE [history |-> SubSeq(h, 1, Len(h) - 1), result |-> h[Len(h)]]

\* HistoryManager.undo(): the history afterwards and the value returned
HistoryManager_undo(h) ==
    IF Len(h) < 2
    THEN [history |-> h, result |-> 0]
    ELSE [history |-> SubSeq(h, 1, Len(h) - 1), result |-> h[Len(h) - 1]]

get_saved_state_sharing(h, memento) ==
    [dicts |-> h, result |-> mementos[memento]]

\* FormState.get_saved_state(): return self._state.copy()
get_saved_state(h, memento) ==
    [dicts |-> dict_copy(h, mementos[memento]), result |-> Len(h) + 1]

\* FormEditor.restoreMemento(memento):
\* self._field_values = memento.get_saved_state()
restoreMemento(memento) ==
    /\ dicts' = get_saved_state(dicts, memento).dicts
    /\ editor_dict' = get_saved_state(dicts, memento).result
    /\ last_change' = <<"Restored from Memento">>
    /\ UNCHANGED mementos

\* the record of a call made in the current state
MementoCall(op) == [op |-> op, history |-> mhistory, timeline |-> timeline]

notMementoVars == <<commandVars, playerVars, loggerVars, observerVars, adapterVars, proxyVars, mediatorVars>>
NotMementoInit == CommandAtRest /\ InitPlayer /\ InitLogger /\ InitStock /\ InitAdapter /\ InitProxy /\ InitMediator

(* SpecMemento: any client of one FormEditor and one HistoryManager *)
InitMementoSpec == InitMemento /\ NotMementoInit

MementoUpdate ==
    \E f \in Fields, v \in Values :
        /\ mcalls < MaxMementoCalls
        /\ update_field(f, v)
        /\ mlast' = MementoCall("update_field")
        /\ mcalls' = mcalls + 1
        /\ UNCHANGED <<mhistory, undo_result, timeline, saved_len, undos_ok>>
        /\ UNCHANGED <<snap_at, notMementoVars>>

MementoSave ==
    /\ mcalls < MaxMementoCalls
    /\ save_createMemento
    /\ mlast' = MementoCall("save_state")
    /\ saved_len' = Len(mhistory) + 1
    /\ undos_ok' = 0
    /\ mcalls' = mcalls + 1
    /\ UNCHANGED <<undo_result, timeline>>
    /\ UNCHANGED <<snap_at, notMementoVars>>

MementoUndo ==
    /\ mcalls < MaxMementoCalls
    /\ mhistory' = HistoryManager_undo(mhistory).history
    /\ undo_result' = HistoryManager_undo(mhistory).result
    /\ undos_ok' = IF HistoryManager_undo(mhistory).result # 0
                   THEN undos_ok + 1 ELSE undos_ok
    /\ mlast' = MementoCall("undo")
    /\ mcalls' = mcalls + 1
    /\ UNCHANGED <<dicts, editor_dict, last_change, mementos, timeline, saved_len>>
    /\ UNCHANGED <<snap_at, notMementoVars>>

MementoRestore ==
    /\ mcalls < MaxMementoCalls
    /\ undo_result # 0
    /\ restoreMemento(undo_result)
    /\ mlast' = MementoCall("restoreMemento")
    /\ mcalls' = mcalls + 1
    /\ UNCHANGED <<mhistory, undo_result, timeline, saved_len, undos_ok>>
    /\ UNCHANGED <<snap_at, notMementoVars>>

NextMemento == MementoUpdate \/ MementoSave \/ MementoUndo \/ MementoRestore

SpecMemento == InitMementoSpec /\ [][NextMemento]_vars

(* SpecMementoDemo: the protocol of the __main__ block: a baseline        *)
(* snapshot, then a snapshot after every change; an undo step is          *)
(* history.undo() followed, if it returned a memento, by restoreMemento   *)
DemoBaseline ==
    /\ mcalls = 0
    /\ save_createMemento
    /\ mlast' = MementoCall("baseline")
    /\ saved_len' = Len(mhistory) + 1
    /\ undos_ok' = 0
    /\ mcalls' = 1
    /\ UNCHANGED <<undo_result, timeline>>
    /\ UNCHANGED <<snap_at, notMementoVars>>

\* editor.update_field(f, v); history.save_state(editor.createMemento())
DemoChange ==
    \E f \in Fields, v \in Values :
        LET changed == [dicts EXCEPT ![editor_dict][f] = v]
            r == FormState_init(changed, mementos, editor_dict)
        IN  /\ mcalls \in 1..MaxDemoSteps
            /\ last_change' = <<"Changed", f, FieldValues[f], v>>
            /\ dicts' = r.dicts
            /\ mementos' = r.mementos
            /\ mhistory' = Append(mhistory, Len(r.mementos))
            /\ timeline' = Append(timeline, changed[editor_dict])
            /\ mlast' = MementoCall("change")
            /\ saved_len' = Len(mhistory) + 1
            /\ undos_ok' = 0
            /\ mcalls' = mcalls + 1
            /\ UNCHANGED <<editor_dict, undo_result>>
            /\ UNCHANGED <<snap_at, notMementoVars>>

\* memento_to_restore = history.undo()
\* if memento_to_restore: editor.restoreMemento(memento_to_restore)
DemoUndo ==
    LET u == HistoryManager_undo(mhistory)
    IN  /\ mcalls \in 1..MaxDemoSteps
        /\ mhistory' = u.history
        /\ undo_result' = u.result
        /\ IF u.result # 0
           THEN /\ restoreMemento(u.result)
                /\ timeline' = SubSeq(timeline, 1, Len(timeline) - 1)
                /\ undos_ok' = undos_ok + 1
           ELSE UNCHANGED <<dicts, editor_dict, last_change, mementos,
                            timeline, undos_ok>>
        /\ mlast' = MementoCall("undo")
        /\ mcalls' = mcalls + 1
        /\ UNCHANGED saved_len
        /\ UNCHANGED <<snap_at, notMementoVars>>

NextMementoDemo == DemoBaseline \/ DemoChange \/ DemoUndo

SpecMementoDemo == InitMementoSpec /\ [][NextMementoDemo]_vars

(* SpecMementoBefore: the protocol of createMemento's docstring: a         *)
(* snapshot is saved before every change; an undo step is history.undo()   *)
(* followed, if it returned a memento, by restoreMemento                   *)

\* history.save_state(editor.createMemento()); editor.update_field(f, v)
BeforeChange ==
    \E f \in Fields, v \in Values :
        LET r == FormState_init(dicts, mementos, editor_dict)
            changed == [r.dicts EXCEPT ![editor_dict][f] = v]
        IN  /\ mcalls < MaxBeforeSteps
            /\ mementos' = r.mementos
            /\ mhistory' = Append(mhistory, Len(r.mementos))
            /\ snap_at' = Append(snap_at, Len(timeline))
            /\ last_change' = <<"Changed", f, FieldValues[f], v>>
            /\ dicts' = changed
            /\ timeline' = Append(timeline, changed[editor_dict])
            /\ mlast' = MementoCall("change")
            /\ saved_len' = Len(mhistory) + 1
            /\ undos_ok' = 0
            /\ mcalls' = mcalls + 1
            /\ UNCHANGED <<editor_dict, undo_result>>
            /\ UNCHANGED notMementoVars

\* memento = history.undo(); if memento: editor.restoreMemento(memento)
BeforeUndo ==
    LET u == HistoryManager_undo(mhistory)
    IN  /\ mcalls < MaxBeforeSteps
        /\ mhistory' = u.history
        /\ undo_result' = u.result
        /\ IF u.result # 0
           THEN /\ restoreMemento(u.result)
                /\ timeline' = SubSeq(timeline, 1, snap_at[u.result])
                /\ undos_ok' = undos_ok + 1
           ELSE UNCHANGED <<dicts, editor_dict, last_change, mementos,
                            timeline, undos_ok>>
        /\ mlast' = MementoCall("undo")
        /\ mcalls' = mcalls + 1
        /\ UNCHANGED <<snap_at, saved_len>>
        /\ UNCHANGED notMementoVars

NextMementoBefore == BeforeChange \/ BeforeUndo

SpecMementoBefore == InitMementoSpec /\ [][NextMementoBefore]_vars

(* SpecMementoIsolation: a client that creates mementos, restores any of   *)
(* them, and writes to every dictionary it can get hold of                 *)
InitMementoIsolation == MementoAtRest /\ NotMementoInit

FormStates == 1..Len(mementos)

IsolationUpdate ==
    \E f \in Fields, v \in Values :
        /\ mcalls < MaxIsolationCalls
        /\ update_field(f, v)
        /\ mlast' = MementoCall("update_field")
        /\ mcalls' = mcalls + 1
        /\ UNCHANGED <<mhistory, undo_result, timeline, snap_at, saved_len,
                       undos_ok>>
        /\ UNCHANGED notMementoVars

\* editor.createMemento()
IsolationCreate ==
    /\ mcalls < MaxIsolationCalls
    /\ dicts' = FormState_init(dicts, mementos, editor_dict).dicts
    /\ mementos' = FormState_init(dicts, mementos, editor_dict).mementos
    /\ mlast' = MementoCall("createMemento")
    /\ mcalls' = mcalls + 1
    /\ UNCHANGED <<editor_dict, last_change, mhistory, undo_result, timeline,
                   snap_at, saved_len, undos_ok>>
    /\ UNCHANGED notMementoVars

\* editor.restoreMemento(m)
IsolationRestore ==
    \E m \in FormStates :
        /\ mcalls < MaxIsolationCalls
        /\ restoreMemento(m)
        /\ mlast' = MementoCall("restoreMemento")
        /\ mcalls' = mcalls + 1
        /\ UNCHANGED <<mhistory, undo_result, timeline, snap_at, saved_len,
                       undos_ok>>
        /\ UNCHANGED notMementoVars

\* d = m.get_saved_state(); d[f] = v
IsolationWriteSavedState ==
    \E m \in FormStates, f \in Fields, v \in Values :
        LET g == get_saved_state(dicts, m)
        IN  /\ mcalls < MaxIsolationCalls
            /\ dicts' = [g.dicts EXCEPT ![g.result][f] = v]
            /\ mlast' = MementoCall("write_saved_state")
            /\ mcalls' = mcalls + 1
            /\ UNCHANGED <<editor_dict, last_change, mementos, mhistory,
                           undo_result, timeline, snap_at, saved_len, undos_ok>>
            /\ UNCHANGED notMementoVars

\* editor.state[f] = v
IsolationWriteState ==
    \E f \in Fields, v \in Values :
        /\ mcalls < MaxIsolationCalls
        /\ dicts' = [dicts EXCEPT ![editor_dict][f] = v]
        /\ mlast' = MementoCall("write_state")
        /\ mcalls' = mcalls + 1
        /\ UNCHANGED <<editor_dict, last_change, mementos, mhistory,
                       undo_result, timeline, snap_at, saved_len, undos_ok>>
        /\ UNCHANGED notMementoVars

NextMementoIsolation ==
    \/ IsolationUpdate
    \/ IsolationCreate
    \/ IsolationRestore
    \/ IsolationWriteSavedState
    \/ IsolationWriteState

SpecMementoIsolation == InitMementoIsolation /\ [][NextMementoIsolation]_vars

----------------------------------------------------------------------------
(* Properties of the Memento unit *)

\* C19: undo() on fewer than two snapshots returns None and leaves the
\* history unchanged; on two or more it removes exactly the last snapshot
\* and returns the one that is then last, which stays in the history.  So
\* undo() never takes a history below one snapshot, and k saved snapshots
\* allow exactly k - 1 undo() calls that return a memento.
C19_UndoKeepsOneSnapshot ==
    /\ (mlast.op = "undo" /\ Len(mlast.history) < 2) =>
          (undo_result = 0 /\ mhistory = mlast.history)
    /\ (mlast.op = "undo" /\ Len(mlast.history) >= 2) =>
          /\ mhistory = SubSeq(mlast.history, 1, Len(mlast.history) - 1)
          /\ undo_result = mlast.history[Len(mlast.history) - 1]
          /\ undo_result = mhistory[Len(mhistory)]
    /\ (mlast.op = "undo" /\ Len(mlast.history) >= 1) => Len(mhistory) >= 1
    /\ saved_len >= 1 =>
          /\ undos_ok <= saved_len - 1
          /\ Len(mhistory) = saved_len - undos_ok
          /\ (mlast.op = "undo" /\ undo_result = 0) => undos_ok = saved_len - 1

\* of two saved snapshots one has been undone, and the next undo() returned
\* None
C19_Witness ==
    /\ mlast.op = "undo" /\ undo_result = 0
    /\ saved_len = 2 /\ undos_ok = 1
    /\ Len(mhistory) = 1

\* C20: with a baseline snapshot and a snapshot after every change, each
\* undo() that returns a memento, followed by restoreMemento of it, puts the
\* editor in the state it had before its most recent change not yet undone;
\* n such steps after k changes give the state after k - n changes.
C20_SnapshotAfterChange ==
    /\ (mlast.op = "undo" /\ undo_result # 0) =>
          /\ Len(mlast.timeline) >= 2
          /\ FieldValues = mlast.timeline[Len(mlast.timeline) - 1]
    /\ (mlast.op = "undo" /\ undo_result = 0) => Len(mlast.timeline) = 1
    /\ mcalls >= 1 => FieldValues = timeline[Len(timeline)]

\* two changes have been undone one after the other, the second of them
\* having changed the state, and the editor is back in its initial state
C20_Witness ==
    /\ mlast.op = "undo" /\ undo_result # 0
    /\ mcalls = 5
    /\ Len(timeline) = 1
    /\ FieldValues = dicts[1]
    /\ mlast.timeline[2] # mlast.timeline[1]

\* C21: with a snapshot saved before every change, an undo step that follows
\* one or more changes still in effect returns the snapshot of the state
\* just before the most recent of them, and restoring it reverts exactly
\* that change.
C21_SnapshotBeforeChange ==
    (mlast.op = "undo" /\ Len(mlast.timeline) >= 2) =>
        /\ undo_result # 0
        /\ dicts[mementos[undo_result]] = mlast.timeline[Len(mlast.timeline) - 1]
        /\ FieldValues = mlast.timeline[Len(mlast.timeline) - 1]

\* C22: the field values stored in a FormState never change after it is
\* created, whatever the client then does with the editor, the mementos and
\* the dictionaries it gets from them.
C22_SnapshotIsolation ==
    [][\A m \in FormStates : dicts'[mementos'[m]] = dicts[mementos[m]]]_vars

\* a dictionary returned by get_saved_state() has been written to and now
\* differs from its memento, or the editor's state has been written to after
\* a restore and now differs from the memento restored
C22_Witness ==
    \/ /\ mlast.op = "write_saved_state"
       /\ dicts[Len(dicts)] # dicts[mementos[1]]
    \/ /\ mlast.op \in {"write_state", "update_field"}
       /\ editor_dict # 1
       /\ FieldValues # dicts[mementos[1]]

----------------------------------------------------------------------------
(* The Observer unit *)

\* the elements of a list
Elements(list) == {list[i] : i \in 1..Len(list)}

Stock_attach_again(obs, observer) == Append(obs, observer)

\* Stock.attach(observer)
Stock_attach(obs, observer) ==
    IF observer \notin Elements(obs) THEN Append(obs, observer) ELSE obs

\* list.remove(observer): the first occurrence is removed
list_remove(list, x) ==
    LET i == CHOOSE i \in 1..Len(list) :
                 list[i] = x /\ \A j \in 1..(i - 1) : list[j] # x
    IN  SubSeq(list, 1, i - 1) \o SubSeq(list, i + 1, Len(list))

\* Stock.detach(observer): a ValueError of remove() is passed over
Stock_detach(obs, observer) ==
    IF observer \in Elements(obs) THEN list_remove(obs, observer) ELSE obs

\* Stock.notify(): the update() calls made, in order
Stock_notify(obs) == obs

\* the record of a call made in the current state
StockCall(op, arg) ==
    [op |-> op, arg |-> arg, price |-> stock_price, observers |-> observers]

notObserverVars == <<commandVars, playerVars, loggerVars, mementoVars, adapterVars, proxyVars, mediatorVars>>
NotObserverInit == CommandAtRest /\ InitPlayer /\ InitLogger /\ MementoAtRest /\ InitAdapter /\ InitProxy /\ InitMediator

InitObserverSpec == InitStock /\ NotObserverInit

\* stock.attach(o)
StockAttach ==
    \E o \in Observers :
        /\ ocalls < MaxStockCalls
        /\ observers' = Stock_attach(observers, o)
        /\ attached_at' = IF attached_at[o] = 0
                          THEN [attached_at EXCEPT ![o] = ocalls + 1]
                          ELSE attached_at
        /\ notified' = <<>>
        /\ olast' = StockCall("attach", o)
        /\ ocalls' = ocalls + 1
        /\ UNCHANGED stock_price
        /\ UNCHANGED notObserverVars

\* stock.detach(o)
StockDetach ==
    \E o \in Observers :
        /\ ocalls < MaxStockCalls
        /\ observers' = Stock_detach(observers, o)
        /\ attached_at' = [attached_at EXCEPT ![o] = 0]
        /\ notified' = <<>>
        /\ olast' = StockCall("detach", o)
        /\ ocalls' = ocalls + 1
        /\ UNCHANGED stock_price
        /\ UNCHANGED notObserverVars

\* stock.price = new_price
StockSetPrice ==
    \E new_price \in Prices :
        /\ ocalls < MaxStockCalls
        /\ IF new_price # stock_price
           THEN /\ stock_price' = new_price
                /\ notified' = Stock_notify(observers)
           ELSE /\ notified' = <<>>
                /\ UNCHANGED stock_price
        /\ olast' = StockCall("price", new_price)
        /\ ocalls' = ocalls + 1
        /\ UNCHANGED <<observers, attached_at>>
        /\ UNCHANGED notObserverVars

NextObserver == StockAttach \/ StockDetach \/ StockSetPrice

SpecObserver == InitObserverSpec /\ [][NextObserver]_vars

----------------------------------------------------------------------------
(* Properties of the Observer unit *)

\* the observers attached, each once, in the order of their attach() calls
AttachOrder(list) ==
    /\ Elements(list) = {o \in Observers : attached_at[o] > 0}
    /\ \A i, j \in 1..Len(list) :
           i < j => attached_at[list[i]] < attached_at[list[j]]

\* C23: assigning Stock.price a value different from the current one calls
\* update once on every observer attached at that moment, in attach order,
\* and on no other observer; assigning the current value calls none.
\* attach of an attached observer and detach of an observer not attached
\* change nothing.
C23_ObserverNotification ==
    /\ (olast.op = "price" /\ olast.arg # olast.price) =>
          /\ stock_price = olast.arg
          /\ AttachOrder(notified)
    /\ (olast.op = "price" /\ olast.arg = olast.price) =>
          /\ stock_price = olast.price
          /\ notified = <<>>
    /\ (olast.op = "attach" /\ olast.arg \in Elements(olast.observers)) =>
          observers = olast.observers
    /\ (olast.op = "detach" /\ olast.arg \notin Elements(olast.observers)) =>
          observers = olast.observers
    /\ olast.op \in {"attach", "detach"} => notified = <<>>

\* an observer was detached and attached again behind another one, and a new
\* price has been notified to the two in that order
C23_Witness ==
    /\ olast.op = "price" /\ olast.arg # olast.price
    /\ notified = <<"analytics_logger", "ui_display">>
    /\ attached_at["ui_display"] > 2

----------------------------------------------------------------------------
(* The Adapter unit *)

\* Amounts are counted in quarters of a dollar, which a float holds exactly,
\* as it holds their products by 100: 120.50 is 482 quarters.
Amounts == {0, 2, 482}

\* LegacyGateway.init_transaction(amount): f"Auth_Code_LGC-{int(amount * 100)}"
init_transaction(amount) == <<"Auth_Code_LGC-", 25 * amount>>

\* LegacyGateway.finalize_payment(auth_code)
finalize_payment(code) == "SUCCESS"

\* PaymentAdapter.authorize(amount): the code kept, the gateway's calls and
\* the value returned
PaymentAdapter_authorize(log, amount) ==
    [auth_code |-> init_transaction(amount),
     gateway_log |-> Append(log, <<"init_transaction", init_transaction(amount)>>),
     result |-> <<"Authorization successful: ">> \o init_transaction(amount)]

PaymentAdapter_capture_keeping_code(code, log) ==
    IF code = <<>>
    THEN [auth_code |-> code, gateway_log |-> log,
          result |-> <<"ERROR: Cannot capture; authorization missing.">>]
    ELSE [auth_code |-> code,
          gateway_log |-> Append(log, <<"finalize_payment", code>>),
          result |-> <<"Capture result: ", finalize_payment(code)>>]

\* PaymentAdapter.capture()
PaymentAdapter_capture(code, log) ==
    IF code = <<>>
    THEN [auth_code |-> code, gateway_log |-> log,
          result |-> <<"ERROR: Cannot capture; authorization missing.">>]
    ELSE [auth_code |-> <<>>,
          gateway_log |-> Append(log, <<"finalize_payment", code>>),
          result |-> <<"Capture result: ", finalize_payment(code)>>]

\* the record of a call made in the current state
AdapterCall(op) ==
    [op |-> op, auth_code |-> auth_code, gateway_log |-> gateway_log]

notAdapterVars == <<commandVars, playerVars, loggerVars, mementoVars, observerVars, proxyVars, mediatorVars>>
NotAdapterInit == CommandAtRest /\ InitPlayer /\ InitLogger /\ MementoAtRest /\ InitStock /\ InitProxy /\ InitMediator

InitAdapterSpec == InitAdapter /\ NotAdapterInit

\* payment_processor.authorize(amount)
AdapterAuthorize ==
    \E amount \in Amounts :
        LET r == PaymentAdapter_authorize(gateway_log, amount)
        IN  /\ acalls < MaxAdapterCalls
            /\ auth_code' = r.auth_code
            /\ gateway_log' = r.gateway_log
            /\ areturn' = r.result
            /\ alast' = AdapterCall("authorize")
            /\ acalls' = acalls + 1
            /\ UNCHANGED notAdapterVars

\* payment_processor.capture()
AdapterCapture ==
    LET r == PaymentAdapter_capture(auth_code, gateway_log)
    IN  /\ acalls < MaxAdapterCalls
        /\ auth_code' = r.auth_code
        /\ gateway_log' = r.gateway_log
        /\ areturn' = r.result
        /\ alast' = AdapterCall("capture")
        /\ acalls' = acalls + 1
        /\ UNCHANGED notAdapterVars

NextAdapter == AdapterAuthorize \/ AdapterCapture

SpecAdapter == InitAdapterSpec /\ [][NextAdapter]_vars

----------------------------------------------------------------------------
(* Properties of the Adapter unit *)

\* the gateway's calls of one kind
GatewayCalls(kind) == {i \in 1..Len(gateway_log) : gateway_log[i][1] = kind}

\* the last call on the gateway was an init_transaction: an authorize() has
\* happened since construction or since the last capture that went through
Authorized(log) == Len(log) > 0 /\ log[Len(log)][1] = "init_transaction"

\* C24: capture() calls finalize_payment only when an authorize() has
\* happened since construction or since the last capture that went through,
\* with the auth code of the most recent authorize(); otherwise it returns
\* the error and leaves the gateway alone.  So each authorization is
\* captured at most once, and the finalize_payment calls never outnumber
\* the authorize calls.
C24_CaptureNeedsAuthorization ==
    /\ (alast.op = "capture" /\ Authorized(alast.gateway_log)) =>
          /\ gateway_log = Append(alast.gateway_log,
                 <<"finalize_payment", alast.gateway_log[Len(alast.gateway_log)][2]>>)
          /\ areturn = <<"Capture result: ", "SUCCESS">>
    /\ (alast.op = "capture" /\ ~Authorized(alast.gateway_log)) =>
          /\ gateway_log = alast.gateway_log
          /\ areturn = <<"ERROR: Cannot capture; authorization missing.">>
    /\ \A i \in GatewayCalls("finalize_payment") :
          /\ i > 1
          /\ gateway_log[i - 1] = <<"init_transaction", gateway_log[i][2]>>
    /\ Cardinality(GatewayCalls("finalize_payment"))
           <= Cardinality(GatewayCalls("init_transaction"))

\* after two authorizations of different amounts a capture went through, and
\* the capture after it was refused
C24_Witness ==
    /\ alast.op = "capture"
    /\ areturn = <<"ERROR: Cannot capture; authorization missing.">>
    /\ Len(gateway_log) = 3
    /\ gateway_log[1][2] # gateway_log[2][2]
    /\ gateway_log[3] = <<"finalize_payment", gateway_log[2][2]>>

----------------------------------------------------------------------------
(* The Proxy unit *)

Roles == {"ADMIN", "PREMIUM", "BASIC", "GUEST"}

\* an attribute that has never been assigned, and one that holds a value
\* (0: None, otherwise a RealDocument)
Unassigned == [assigned |-> FALSE, value |-> 0]
Assigned(v) == [assigned |-> TRUE, value |-> v]

\* ProxyDocument.__init__: "self._real_document: RealDocument" annotates
\* the attribute and assigns nothing
ProxyDocument_init(user_role) ==
    [user_role |-> user_role, real_document |-> Unassigned, displays |-> 0]

\* ProxyDocument._check_access()
check_access(proxy) == proxy.user_role \in {"ADMIN", "PREMIUM"}

\* ProxyDocument.display() of proxy p: what becomes of the proxy, of the
\* RealDocument objects and of the renderings, and how the call ends.
\* Reading an attribute never assigned raises AttributeError.
ProxyDocument_display(p) ==
    LET proxy == proxies[p]
        counted == [proxy EXCEPT !.displays = @ + 1]
    IN  IF ~check_access(proxy)
        THEN [proxy |-> counted, real_documents |-> real_documents,
              rendered |-> rendered, outcome |-> "denied"]
        ELSE IF ~proxy.real_document.assigned
        THEN [proxy |-> counted, real_documents |-> real_documents,
              rendered |-> rendered, outcome |-> "AttributeError"]
        ELSE IF proxy.real_document.value = 0
        THEN [proxy |-> [counted EXCEPT !.real_document =
                             Assigned(Len(real_documents) + 1)],
              real_documents |-> Append(real_documents, p),
              rendered |-> Append(rendered, <<p, Len(real_documents) + 1>>),
              outcome |-> "rendered"]
        ELSE [proxy |-> counted, real_documents |-> real_documents,
              rendered |-> Append(rendered, <<p, proxy.real_document.value>>),
              outcome |-> "rendered"]

notProxyVars == <<commandVars, playerVars, loggerVars, mementoVars, observerVars, adapterVars, mediatorVars>>
NotProxyInit == CommandAtRest /\ InitPlayer /\ InitLogger /\ MementoAtRest /\ InitStock /\ InitAdapter /\ InitMediator

InitProxySpec == InitProxy /\ NotProxyInit

\* ProxyDocument(pdf_file, user_role=role)
ProxyNew ==
    \E role \in Roles :
        /\ pcalls < MaxProxyCalls
        /\ proxies' = Append(proxies, ProxyDocument_init(role))
        /\ plast' = [op |-> "new", proxy |-> Len(proxies) + 1, outcome |-> "none"]
        /\ pcalls' = pcalls + 1
        /\ UNCHANGED <<real_documents, rendered>>
        /\ UNCHANGED notProxyVars

\* client_code(viewer, user): viewer.display()
ProxyDisplay ==
    \E p \in 1..Len(proxies) :
        LET r == ProxyDocument_display(p)
        IN  /\ pcalls < MaxProxyCalls
            /\ proxies' = [proxies EXCEPT ![p] = r.proxy]
            /\ real_documents' = r.real_documents
            /\ rendered' = r.rendered
            /\ plast' = [op |-> "display", proxy |-> p, outcome |-> r.outcome]
            /\ pcalls' = pcalls + 1
            /\ UNCHANGED notProxyVars

NextProxy == ProxyNew \/ ProxyDisplay

SpecProxy == InitProxySpec /\ [][NextProxy]_vars

----------------------------------------------------------------------------
(* Properties of the Proxy unit *)

\* the RealDocument objects proxy p created, and the renderings made for it
CreatedBy(p) == {d \in 1..Len(real_documents) : real_documents[d] = p}
RenderedFor(p) == {i \in 1..Len(rendered) : rendered[i][1] = p}

\* C25: a proxy of role ADMIN or PREMIUM that has been displayed has created
\* exactly one RealDocument, and each of its display() calls rendered
\* through that one; a proxy of any other role has created none.
C25_LazyLoading ==
    \A p \in 1..Len(proxies) :
        IF proxies[p].user_role \in {"ADMIN", "PREMIUM"}
        THEN proxies[p].displays >= 1 =>
                /\ Cardinality(CreatedBy(p)) = 1
                /\ Cardinality(RenderedFor(p)) = proxies[p].displays
                /\ \A i \in RenderedFor(p) : rendered[i][2] \in CreatedBy(p)
        ELSE CreatedBy(p) = {} /\ RenderedFor(p) = {}

----------------------------------------------------------------------------
(* The Mediator unit *)

Names == {"Alice", "Bob"}

\* messages, as sequences of characters
Messages == { <<"h", "i">>, <<"s", "p", "a">>, <<"S", "p", "A", "M", "!">> }

\* str.lower(), on the characters of the messages
lower_char(c) ==
    CASE c = "S" -> "s"
      [] c = "P" -> "p"
      [] c = "A" -> "a"
      [] c = "M" -> "m"
      [] OTHER -> c

lower(s) == [i \in 1..Len(s) |-> lower_char(s[i])]

\* sub in s
contains(sub, s) ==
    \E i \in 1..(Len(s) - Len(sub) + 1) : SubSeq(s, i, i + Len(sub) - 1) = sub

\* "spam" in message.lower()
is_spam(message) == contains(<<"s", "p", "a", "m">>, lower(message))

\* ConcreteChatMediator.register_participant(participant, uid)
register_participant(parts, participant, uid) ==
    IF parts[uid] # 0 THEN parts ELSE [parts EXCEPT ![uid] = participant]

\* self._participants.get(key): 0 stands for None
participants_get(key) == IF key \in Uids THEN participants[key] ELSE 0

\* ConcreteChatMediator.send_message(sender_id, receiver_id, message): the
\* receive() calls afterwards
send_message(sender_id, receiver_id, message) ==
    LET sender == participants_get(sender_id)
        receiver == participants_get(receiver_id)
    IN  IF sender = 0 THEN received
        ELSE IF receiver = 0 THEN received
        ELSE IF is_spam(message) THEN received
        ELSE Append(received, [receiver |-> receiver,
                               sender |-> members[sender].name,
                               message |-> message])

\* User.send(receiver_id, message):
\* self._mediator.send_message(self.name, receiver_id, message)
User_send(user, receiver_id, message) ==
    send_message(members[user].name, receiver_id, message)

notMediatorVars == <<commandVars, playerVars, loggerVars, mementoVars, observerVars, adapterVars, proxyVars>>
NotMediatorInit == CommandAtRest /\ InitPlayer /\ InitLogger /\ MementoAtRest /\ InitStock /\ InitAdapter /\ InitProxy

InitMediatorSpec == InitMediator /\ NotMediatorInit

\* the record of a call made in the current state
MediatorCall(op, sender, receiver_id, message) ==
    [op |-> op, sender |-> sender, receiver_id |-> receiver_id,
     message |-> message, received |-> received]

\* User(name, uid, chat_system)
MediatorNewUser ==
    \E name \in Names, uid \in Uids :
        /\ ccalls < MaxMediatorCalls
        /\ members' = Append(members, [class |-> "User", name |-> name, uid |-> uid])
        /\ participants' = register_participant(participants, Len(members) + 1, uid)
        /\ clast' = MediatorCall("User", Len(members) + 1, uid, <<>>)
        /\ ccalls' = ccalls + 1
        /\ UNCHANGED received
        /\ UNCHANGED notMediatorVars

\* chat_system.register_participant(Group("DevTeam"), uid)
MediatorRegisterGroup ==
    \E uid \in Uids :
        /\ ccalls < MaxMediatorCalls
        /\ members' = Append(members, [class |-> "Group", name |-> "DevTeam", uid |-> ""])
        /\ participants' = register_participant(participants, Len(members) + 1, uid)
        /\ clast' = MediatorCall("register_participant", Len(members) + 1, uid, <<>>)
        /\ ccalls' = ccalls + 1
        /\ UNCHANGED received
        /\ UNCHANGED notMediatorVars

\* user.send(receiver_id, message)
MediatorSend ==
    \E user \in 1..Len(members), receiver_id \in Uids, message \in Messages :
        /\ ccalls < MaxMediatorCalls
        /\ members[user].class = "User"
        /\ received' = User_send(user, receiver_id, message)
        /\ clast' = MediatorCall("send", user, receiver_id, message)
        /\ ccalls' = ccalls + 1
        /\ UNCHANGED <<participants, members>>
        /\ UNCHANGED notMediatorVars

NextMediator == MediatorNewUser \/ MediatorRegisterGroup \/ MediatorSend

SpecMediator == InitMediatorSpec /\ [][NextMediator]_vars

----------------------------------------------------------------------------
(* Properties of the Mediator unit *)

\* the user is registered under the uid it was created with
Registered(user) == participants[members[user].uid] = user

\* C26: when the sender, a User created with name and uid, and the receiver
\* are both registered, send(receiver_uid, message) with a message that does
\* not contain "spam" makes exactly one receive(sender name, message) call,
\* on the participant registered under receiver_uid; a message that contains
\* "spam" in any letter case, or an unknown receiver uid, makes none.
C26_MediatorDelivery ==
    clast.op = "send" =>
        /\ ( /\ Registered(clast.sender)
             /\ participants[clast.receiver_id] # 0
             /\ ~is_spam(clast.message) ) =>
              received = Append(clast.received,
                  [receiver |-> participants[clast.receiver_id],
                   sender |-> members[clast.sender].name,
                   message |-> clast.message])
        /\ (is_spam(clast.message) \/ participants[clast.receiver_id] = 0) =>
              received = clast.received

====
